---- MODULE Spec2Model ----
(***************************************************************************)
(* Thalamus transcript refinement: the segment ledger (raw segments,       *)
(* refined segments, usage index) and the two refiners of the repository.  *)
(*                                                                         *)
(*   program = "examples":  src/examples/transcript_refiner.py over        *)
(*                          src/examples/database.py (usage-ledger table,  *)
(*                          in-memory open groups, idle flush)             *)
(*   program = "main":      src/transcript_refiner.py over src/database.py *)
(*                          (stateless grouping pass, unrefined segments   *)
(*                          recomputed from the refined rows)              *)
(*                                                                         *)
(* Times are whole seconds.  Confidence scores are kept in units of 1/300  *)
(* (0.5 = 150, 0.8 = 240, 1.0 = 300), the common denominator of the        *)
(* heuristic's terms.                                                      *)
(***************************************************************************)
EXTENDS Integers, Sequences, FiniteSets, TLC

VARIABLES
    program,         \* which refiner runs: "examples" or "main"
    raw,             \* raw_segments / segments table; the row id is the index
    refined,         \* refined_segments table; the row id is the index
    usage,           \* segment_usage table rows (examples only)
    session_states,  \* TranscriptRefiner.session_states (examples only)
    state_order,     \* insertion order of the session_states dict
    pc,              \* position of run(): poll, process, refine, flush, sleep, backoff
    todo,            \* sessions of the current sweep not yet processed
    cur,             \* the call that has just returned: its session, and the
                     \* reply the service had for it (phase2_refinement)
    in_flight,       \* the sessions whose process_session call was entered and
                     \* has not returned
    scorer,          \* the last call of calculate_confidence: arguments and result
    storage          \* "failing" while a storage call can still raise, "working"
                     \* once it no longer does

vars == <<program, raw, refined, usage, session_states, state_order, pc, todo, cur,
          in_flight, scorer, storage>>

(***************************************************************************)
(* Bounds of the model.                                                    *)
(***************************************************************************)
MaxRaw == 3          \* raw segments ingested in a behaviour
MaxTime == 3         \* start and end offsets are within 0..MaxTime
MaxCopies == 2       \* copies of one raw id recorded in an open group
MaxRefined == 5      \* refined rows written by the main refiner
MaxCallerRows == 4   \* refined rows written when the methods are called directly
MaxFailAt == 2       \* a storage failure hits the 1st..MaxFailAt-th close of a pass
MaxFailStep == 3     \* and the 1st..MaxFailStep-th statement of its transaction

\* TranscriptRefiner(inactivity_seconds=...): the idle threshold is a
\* constructor parameter (default 120); the model runs a refiner built with a
\* short threshold.
inactivity_seconds == 2
MaxInFlight == 2
MaxWords == 11
MaxSources == 4

LockThreshold == 240          \* 0.8
CorrectionConfidence == 270   \* 0.9, "Slightly lower confidence for corrections"
PlaceholderConfidence == 150  \* 0.5, "Placeholder confidence until Phase 1"

MaxAttempts == 3
LockAfterSeconds == 300
PollInterval == 1    \* time.sleep(1) at the end of a sweep
ErrorBackoff == 5    \* time.sleep(5) after an error in the sweep

Sessions == {"S1", "S2"}
Speakers == {1, 2}
\* the (start, end) offsets a raw segment may carry: a long utterance, and a
\* short one that starts later and ends earlier
Intervals == {<<0, MaxTime>>, <<1, MaxTime - 1>>}

\* the text of a raw segment, as far as the refiner reads it: its number of
\* words and whether it ends with a sentence ending
\* a text, as far as the refiner looks at it: whether it is the empty
\* string, its number of words (text.split()), and whether, stripped, it ends
\* with one of the sentence endings
Fragment == [empty |-> FALSE, words |-> 1, ends |-> FALSE]
Sentence == [empty |-> FALSE, words |-> 4, ends |-> TRUE]
Texts == {Fragment, Sentence}

None == "None"
NoCall == [session |-> None, reply |-> None]
NoScore ==
    [called |-> FALSE, text |-> [empty |-> TRUE, words |-> 0, ends |-> FALSE],
     segments |-> 0, confidence |-> 0]
NoSpeaker == 0       \* "speaker_id": None of a fresh session state
NoFail == [at |-> 0, step |-> 0]

RawIds == 1..Len(raw)

(***************************************************************************)
(* Helpers on sequences.                                                   *)
(***************************************************************************)
Range(s) == {s[i] : i \in 1..Len(s)}

Copies(s, x) == Cardinality({i \in 1..Len(s) : s[i] = x})

MinOf(S) == CHOOSE x \in S : \A y \in S : x <= y
MaxOf(S) == CHOOSE x \in S : \A y \in S : x >= y

\* a dict with key k set to v, and with key k deleted
Put(d, k, v) == [x \in DOMAIN d \cup {k} |-> IF x = k THEN v ELSE d[x]]
Del(d, k) == [x \in DOMAIN d \ {k} |-> d[x]]

Saturate(n) == IF n > inactivity_seconds THEN inactivity_seconds ELSE n

\* the rows in the order the query returned them, without the sort
FetchOrder(ids) == ids

\* list.sort(key=start_time): stable, so rows of equal start keep fetch order
RECURSIVE SortFrom(_, _)
SortFrom(ids, t) ==
    IF t > MaxTime THEN <<>>
    ELSE SelectSeq(ids, LAMBDA i : raw[i].start = t) \o SortFrom(ids, t + 1)

SortByStart(ids) == SortFrom(ids, 0)

\* the members of a set of row ids in rowid order
RECURSIVE AscendingFrom(_, _)
AscendingFrom(S, i) ==
    IF i > Len(raw) THEN <<>>
    ELSE (IF i \in S THEN <<i>> ELSE <<>>) \o AscendingFrom(S, i + 1)

Ascending(S) == AscendingFrom(S, 1)

(***************************************************************************)
(* Ledger, examples variant (src/examples/database.py).                    *)
(***************************************************************************)
UsedIds == {usage[i].raw : i \in 1..Len(usage)}

\* get_unrefined_segments(session_id): raw rows with no segment_usage row
get_unrefined_segments(s) ==
    Ascending({i \in RawIds : raw[i].session = s /\ i \notin UsedIds})

\* get_active_sessions(): sessions that have a raw row with no usage row
get_active_sessions ==
    {s \in Sessions : \E i \in RawIds : raw[i].session = s /\ i \notin UsedIds}

\* INSERT OR IGNORE INTO segment_usage: raw_segment_id is the primary key
UsagePlainInsert(use, rawId, refId) ==
    Append(use, [raw |-> rawId, refined |-> refId])

UsageInsertOrIgnore(use, rawId, refId) ==
    IF \E i \in 1..Len(use) : use[i].raw = rawId
    THEN use
    ELSE Append(use, [raw |-> rawId, refined |-> refId])

\* the ledger after the first k statements of insert_refined_segment's
\* transaction: statement 1 inserts the refined row, statement 1+j records
\* the usage of the j-th source id
RECURSIVE TxState(_, _, _, _)
TxState(ref, use, row, k) ==
    IF k = 0 THEN [refined |-> ref, usage |-> use]
    ELSE IF k = 1 THEN [refined |-> Append(ref, row), usage |-> use]
    ELSE LET before == TxState(ref, use, row, k - 1)
         IN [refined |-> before.refined,
             usage |-> UsageInsertOrIgnore(before.usage, row.sources[k - 1],
                                           Len(ref) + 1)]

\* an exception before conn.commit(): the connection is closed and the
\* uncommitted statements are rolled back
Autocommit(ref, use, tx) == tx

Rollback(ref, use, tx) == [refined |-> ref, usage |-> use]

\* insert_refined_segment(...): fail = 0, or the number of the statement
\* that raises (1 + Len(sources) + 1 is the commit itself)
insert_refined_segment(ref, use, row, fail) ==
    LET n == 1 + Len(row.sources)
    IN IF fail = 0 \/ fail > n + 1
       THEN [db |-> TxState(ref, use, row, n), ok |-> TRUE]
       ELSE [db |-> Rollback(ref, use, TxState(ref, use, row, fail - 1)),
             ok |-> FALSE]

\* a refined_segments row as the examples refiner writes it
GroupRow(group, s) ==
    [session |-> s,
     speaker |-> raw[group[1]].speaker,
     text |-> "raw_text",
     start |-> MinOf({raw[group[i]].start : i \in 1..Len(group)}),
     end |-> MaxOf({raw[group[i]].end : i \in 1..Len(group)}),
     confidence |-> 0,
     sources |-> group,
     meta |-> FALSE,
     phase |-> 0,
     is_locked |-> FALSE,
     needs_refinement |-> FALSE]

\* _finalize_group(segments, session_id)
finalize_group(group, s, ref, use, fail) ==
    insert_refined_segment(ref, use, GroupRow(group, s), fail)

(***************************************************************************)
(* Examples refiner (src/examples/transcript_refiner.py).                  *)
(***************************************************************************)
\* state["group"].append(segment); the model records at most MaxCopies
\* copies of one raw id in a group
GroupAppend(group, id) ==
    IF Copies(group, id) >= MaxCopies THEN group ELSE Append(group, id)

\* "Check for speaker change": the open group is closed before this segment
SpeakerNeverChanged(speaker_id, group, seg) == FALSE

SpeakerChanged(speaker_id, group, seg) ==
    /\ speaker_id # NoSpeaker
    /\ raw[seg].speaker # speaker_id
    /\ group # <<>>

\* the for loop of process_session: acc is the session state and the ledger
\* so far, fail names the close that raises and the statement that raises
RECURSIVE process_segments(_, _, _, _)
process_segments(segs, s, acc, fail) ==
    IF segs = <<>> \/ ~acc.ok THEN acc
    ELSE LET seg == Head(segs)
             change == SpeakerChanged(acc.speaker_id, acc.group, seg)
             res == finalize_group(acc.group, s, acc.refined, acc.usage,
                                   IF acc.closes + 1 = fail.at
                                   THEN fail.step ELSE 0)
         IN IF change /\ ~res.ok
            THEN [acc EXCEPT !.refined = res.db.refined,
                             !.usage = res.db.usage, !.ok = FALSE]
            ELSE process_segments(Tail(segs), s,
                    [speaker_id |-> raw[seg].speaker,
                     group |-> GroupAppend(IF change THEN <<>> ELSE acc.group, seg),
                     refined |-> IF change THEN res.db.refined ELSE acc.refined,
                     usage |-> IF change THEN res.db.usage ELSE acc.usage,
                     closes |-> IF change THEN acc.closes + 1 ELSE acc.closes,
                     ok |-> TRUE],
                    fail)

\* process_session(session_id)
process_session(s, fail) ==
    LET segments == SortByStart(get_unrefined_segments(s))
        known == s \in DOMAIN session_states
        acc0 == [speaker_id |-> IF known THEN session_states[s].speaker_id
                                ELSE NoSpeaker,
                 group |-> IF known THEN session_states[s].group ELSE <<>>,
                 refined |-> refined,
                 usage |-> usage,
                 closes |-> 0,
                 ok |-> TRUE]
        acc == process_segments(segments, s, acc0, fail)
    IN IF segments = <<>>
       THEN UNCHANGED <<refined, usage, session_states, state_order>>
       ELSE /\ refined' = acc.refined
            /\ usage' = acc.usage
            /\ session_states' = Put(session_states, s,
                   [speaker_id |-> acc.speaker_id, group |-> acc.group, idle |-> 0])
            /\ state_order' = IF known THEN state_order
                              ELSE Append(state_order, s)

\* flush_idle_sessions: the test that closes a session's open group
IdleDueAtOnce(st) == st.group # <<>>

IdleDue(st) == st.idle >= inactivity_seconds /\ st.group # <<>>

\* the for loop of flush_idle_sessions over list(session_states.items())
RECURSIVE flush_from(_, _, _)
flush_from(order, acc, fail) ==
    IF order = <<>> \/ ~acc.ok THEN acc
    ELSE LET s == Head(order)
             st == acc.states[s]
             due == IdleDue(st)
             res == finalize_group(st.group, s, acc.refined, acc.usage,
                                   IF acc.closes + 1 = fail.at
                                   THEN fail.step ELSE 0)
         IN IF ~due THEN flush_from(Tail(order), acc, fail)
            ELSE IF ~res.ok
            THEN [acc EXCEPT !.refined = res.db.refined,
                             !.usage = res.db.usage, !.ok = FALSE]
            ELSE flush_from(Tail(order),
                    [states |-> Del(acc.states, s),
                     order |-> SelectSeq(acc.order, LAMBDA x : x # s),
                     refined |-> res.db.refined,
                     usage |-> res.db.usage,
                     closes |-> acc.closes + 1,
                     ok |-> TRUE],
                    fail)

flush_idle_sessions(fail) ==
    flush_from(state_order,
               [states |-> session_states, order |-> state_order,
                refined |-> refined, usage |-> usage, closes |-> 0, ok |-> TRUE],
               fail)

\* the storage failures a pass can meet: none, or the close number and the
\* statement of its transaction that raises
Failures ==
    {NoFail} \cup [at : 1..MaxFailAt, step : 1..MaxFailStep]

\* the main ledger's insert is one statement: only the insert that raises
\* is named
InsertFailures == {NoFail} \cup [at : 1..MaxFailAt, step : {1}]

Aged(states, d) ==
    [s \in DOMAIN states |-> [states[s] EXCEPT !.idle = Saturate(@ + d)]]

(***************************************************************************)
(* Ledger, main variant (src/database.py).                                 *)
(***************************************************************************)
\* str(speaker_id), as the main refiner stores refined_speaker_id (TEXT)
Str(n) == CASE n = 1 -> "1" [] n = 2 -> "2"

\* SQLite compares a TEXT column with an INTEGER column after applying
\* NUMERIC affinity to the text operand
NumericAffinity(txt) == CASE txt = "1" -> 1 [] txt = "2" -> 2

RefinedIds == 1..Len(refined)

\* CTE processed_segments: source ids of the rows with
\* confidence_score >= 0.8 and json_extract(metadata, '$.is_locked') = 1
processed_none == {}

processed_segments ==
    UNION {Range(refined[r].sources) :
             r \in {x \in RefinedIds : /\ refined[x].confidence >= LockThreshold
                                       /\ refined[x].meta
                                       /\ refined[x].is_locked}}

\* CTE latest_refined: MAX(id) per (refined_speaker_id, session_id)
latest_refined ==
    {r \in RefinedIds :
        \A x \in RefinedIds :
            (refined[x].speaker = refined[r].speaker
             /\ refined[x].session = refined[r].session) => x <= r}

\* the WHERE clause without its first condition (NOT IN processed_segments)
IsUnrefinedByLatestOnly(i) ==
    \A lr \in latest_refined :
        (NumericAffinity(refined[lr].speaker) = raw[i].speaker
         /\ refined[lr].session = raw[i].session)
        => i \notin Range(refined[lr].sources)

\* the WHERE clause of get_unrefined_segments for raw row i, lr ranging over
\* the rows the LEFT JOIN pairs with it
IsUnrefined(i) ==
    /\ i \notin processed_segments
    /\ \A lr \in latest_refined :
          (NumericAffinity(refined[lr].speaker) = raw[i].speaker
           /\ refined[lr].session = raw[i].session)
          => i \notin Range(refined[lr].sources)

\* get_unrefined_segments(session_id), ORDER BY s.start_time
get_unrefined_segments_main(s) ==
    SortByStart(Ascending({i \in RawIds : raw[i].session = s /\ IsUnrefined(i)}))

\* the sessions with unrefined segments and no refined segment yet: a
\* session is offered until its first row is written
get_pending_sessions_first_pass ==
    {s \in Sessions : /\ get_unrefined_segments_main(s) # <<>>
                      /\ \A r \in RefinedIds : refined[r].session # s}

\* get_pending_sessions(): the sessions of get_unrefined_segments()
get_pending_sessions ==
    {s \in Sessions : get_unrefined_segments_main(s) # <<>>}

\* the columns of refined_segments (init_db)
RefinedColumns ==
    {"id", "session_id", "refined_speaker_id", "text", "start_time", "end_time",
     "confidence_score", "source_segments", "last_updated", "is_locked", "phase",
     "metadata"}

\* refine_diarized_segments: SELECT * FROM refined_segments WHERE
\* session_id = ? AND phase = 0 AND needs_refinement = 1.  A column the
\* table does not have makes the statement raise (no such column).
select_needs_refinement(s) ==
    IF {"session_id", "phase", "needs_refinement"} \subseteq RefinedColumns
    THEN [ok |-> TRUE,
          rows |-> {r \in RefinedIds : /\ refined[r].session = s
                                        /\ refined[r].phase_column = 0}]
    ELSE [ok |-> FALSE, rows |-> {}]

(***************************************************************************)
(* Main refiner (src/transcript_refiner.py).                               *)
(***************************************************************************)
\* the metadata keys only refine_diarized_segments writes, as
\* metadata.get reads them from a row written by another method
NoAttemptKeys ==
    [refinement_attempts |-> 0, first_attempt_time |-> FALSE,
     meta_confidence |-> 0, is_complete |-> FALSE, lock_reason |-> None]

\* the phase-0 row process_session inserts for current_group
DiarizedRow(acc, s) ==
    NoAttemptKeys @@
    [session |-> s,
     speaker |-> Str(acc.current_speaker),
     text |-> "raw_text",
     start |-> acc.current_start,
     end |-> acc.current_end,
     confidence |-> PlaceholderConfidence,
     sources |-> acc.current_group,
     meta |-> TRUE,
     phase |-> 0,
     is_locked |-> FALSE,
     needs_refinement |-> TRUE]

\* the row as the table stores it: the INSERT names eight columns, and the
\* columns is_locked and phase keep their DEFAULT 0 (the lock flag and the
\* phase the refiner computes go into the metadata JSON only)
StoredRow(row) == row @@ [is_locked_column |-> FALSE, phase_column |-> 0]

\* insert_refined_segment of src/database.py: one INSERT and its commit
insert_or_replace_main(ref, row, fails) ==
    IF fails THEN [refined |-> ref, ok |-> FALSE]
    ELSE IF ref = <<>> THEN [refined |-> <<StoredRow(row)>>, ok |-> TRUE]
    ELSE [refined |-> [ref EXCEPT ![Len(ref)] = StoredRow(row)], ok |-> TRUE]

insert_refined_segment_main(ref, row, fails) ==
    IF fails THEN [refined |-> ref, ok |-> FALSE]
    ELSE [refined |-> Append(ref, StoredRow(row)), ok |-> TRUE]

\* the for loop of process_session ("First pass: Basic diarization grouping")
RECURSIVE diarize(_, _, _, _)
diarize(segs, s, acc, fail) ==
    IF segs = <<>> \/ ~acc.ok THEN acc
    ELSE LET seg == Head(segs)
             change == /\ acc.current_speaker # NoSpeaker
                       /\ acc.current_speaker # raw[seg].speaker
             res == insert_refined_segment_main(acc.refined, DiarizedRow(acc, s),
                                                acc.inserts + 1 = fail.at)
             fresh == change \/ acc.current_group = <<>>
         IN IF change /\ ~res.ok
            THEN [acc EXCEPT !.ok = FALSE]
            ELSE diarize(Tail(segs), s,
                    [current_speaker |-> IF fresh THEN raw[seg].speaker
                                         ELSE acc.current_speaker,
                     current_group |-> Append(IF change THEN <<>>
                                              ELSE acc.current_group, seg),
                     current_start |-> IF fresh THEN raw[seg].start
                                       ELSE acc.current_start,
                     current_end |-> raw[seg].end,
                     refined |-> IF change THEN res.refined ELSE acc.refined,
                     inserts |-> IF change THEN acc.inserts + 1 ELSE acc.inserts,
                     ok |-> TRUE],
                    fail)

\* process_session(session_id): the loop, then "Handle last group"
process_session_main(s, fail) ==
    LET segments == get_unrefined_segments_main(s)
        acc == diarize(segments, s,
                       [current_speaker |-> NoSpeaker, current_group |-> <<>>,
                        current_start |-> 0, current_end |-> 0,
                        refined |-> refined, inserts |-> 0, ok |-> TRUE],
                       fail)
        last == insert_refined_segment_main(acc.refined, DiarizedRow(acc, s),
                                            acc.inserts + 1 = fail.at)
    IN IF segments = <<>> THEN [refined |-> refined, ok |-> TRUE]
       ELSE IF ~acc.ok THEN [refined |-> acc.refined, ok |-> FALSE]
       ELSE last

\* is_complete_sentence(text)
is_complete_sentence(text) == text.ends

\* calculate_confidence(text, segments), in units of 1/300:
\* 0.7 or 0.3, plus 0.2 * min(n / 3, 1), plus 0.1 * min(words / 10, 1)
calculate_confidence_unclamped(text, n) ==
    IF text.empty THEN 0
    ELSE (IF is_complete_sentence(text) THEN 210 ELSE 90) + 20 * n + 3 * text.words

calculate_confidence_bases_swapped(text, n) ==
    IF text.empty THEN 0
    ELSE MinOf({300,
                (IF is_complete_sentence(text) THEN 90 ELSE 210)
                + 20 * MinOf({n, 3}) + 3 * MinOf({text.words, 10})})

calculate_confidence_unguarded(text, n) ==
    MinOf({300,
           (IF is_complete_sentence(text) THEN 210 ELSE 90)
           + 20 * MinOf({n, 3}) + 3 * MinOf({text.words, 10})})

\* the placeholder 0.5 as the base of a text that does not end a sentence
calculate_confidence_half_base(text, n) ==
    IF text.empty THEN 0
    ELSE MinOf({300, (IF is_complete_sentence(text) THEN 210 ELSE PlaceholderConfidence)
                     + 20 * MinOf({n, 3}) + 3 * MinOf({text.words, 10})})

calculate_confidence(text, n) ==
    IF text.empty THEN 0
    ELSE MinOf({300,
                (IF is_complete_sentence(text) THEN 210 ELSE 90)
                + 20 * MinOf({n, 3}) + 3 * MinOf({text.words, 10})})

RECURSIVE WordCount(_)
WordCount(ids) ==
    IF ids = <<>> THEN 0 ELSE raw[Head(ids)].text.words + WordCount(Tail(ids))

\* combine_segments(segments): sorts the group by start time in place, joins
\* the texts, takes the first start and the last end
combine_segments(group) ==
    LET sorted == SortByStart(group)
    IN [group |-> sorted,
        text |-> [empty |-> Len(sorted) = 1 /\ raw[sorted[1]].text.empty,
                  words |-> WordCount(sorted),
                  ends |-> raw[sorted[Len(sorted)]].text.ends],
        start |-> raw[sorted[1]].start,
        end |-> raw[sorted[Len(sorted)]].end]

\* what call_openai_text and the parsing of its reply leave: no usable reply
\* (exception, empty response, no Text line), or a confidence and a
\* completeness flag
NoReply == [served |-> FALSE, confidence |-> 0, complete |-> FALSE]

\* the Confidence line of a reply: a number the service states, or a line
\* that is missing or does not parse as a float
StatedConfidences == {LockThreshold}
ConfidenceFields ==
    [numeric : {TRUE}, value : StatedConfidences] \cup {[numeric |-> FALSE, value |-> 0]}

\* confidence = 0.0; ... try: confidence = float(line[11:].strip())
\* except ValueError: confidence = 0.0
parse_confidence(field) == IF field.numeric THEN field.value ELSE 0

ServiceReplies ==
    {NoReply} \cup {[served |-> TRUE, confidence |-> parse_confidence(f),
                     complete |-> c] : f \in ConfidenceFields, c \in BOOLEAN}

\* the phase-1 row phase1_refinement inserts for current_group: from the
\* service's reply, or the "Fallback to basic refinement"
Phase1Row(group, segment, reply) ==
    LET c == combine_segments(group)
        confidence == IF reply.served THEN reply.confidence
                      ELSE calculate_confidence(c.text, Len(group))
    IN NoAttemptKeys @@
       [session |-> raw[segment].session,
        speaker |-> Str(raw[segment].speaker),
        text |-> IF reply.served THEN "refined_text" ELSE "raw_text",
        start |-> c.start,
        end |-> c.end,
        confidence |-> confidence,
        sources |-> c.group,
        meta |-> TRUE,
        phase |-> 1,
        is_locked |-> /\ confidence >= LockThreshold
                      /\ reply.served => reply.complete,
        needs_refinement |-> FALSE]

\* phase1_refinement, for one group: the service is called inside try; when
\* the call raises or the reply has no text, control reaches the fallback,
\* which inserts the group's row all the same
phase1_emit_if_served(ref, group, segment, reply) ==
    IF reply.served
    THEN insert_refined_segment_main(ref, Phase1Row(group, segment, reply), FALSE).refined
    ELSE ref

phase1_emit(ref, group, segment, reply) ==
    insert_refined_segment_main(ref, Phase1Row(group, segment, reply), FALSE).refined

\* the for loop of phase1_refinement: a group is processed when its text is
\* a complete sentence or it has three segments
RECURSIVE phase1_loop(_, _, _)
phase1_loop(segs, acc, replies) ==
    IF segs = <<>> THEN acc
    ELSE LET segment == Head(segs)
             group == Append(acc.current_group, segment)
             c == combine_segments(group)
         IN IF is_complete_sentence(c.text) \/ Len(group) >= 3
            THEN phase1_loop(Tail(segs),
                    [current_group |-> <<>>,
                     refined |-> phase1_emit(acc.refined, group, segment,
                                             replies[acc.calls + 1]),
                     calls |-> acc.calls + 1],
                    replies)
            ELSE phase1_loop(Tail(segs), [acc EXCEPT !.current_group = c.group],
                             replies)

\* phase1_refinement(segments): the loop, then "Process any remaining segments"
phase1_refinement(segments, ref, replies) ==
    LET sorted == SortByStart(segments)
        acc == phase1_loop(sorted, [current_group |-> <<>>, refined |-> ref,
                                    calls |-> 0], replies)
    IN IF acc.current_group = <<>> THEN acc.refined
       ELSE phase1_emit(acc.refined, acc.current_group, sorted[Len(sorted)],
                        replies[acc.calls + 1])

\* refine_diarized_segments: the lock rules, "based on previous attempts":
\* they read the metadata of the selected row, before the service is called
lock_reason_of(row, elapsed) ==
    IF row.meta_confidence >= LockThreshold /\ row.is_complete
    THEN "high_confidence_complete"
    ELSE IF row.refinement_attempts >= MaxAttempts THEN "max_attempts"
    ELSE IF row.first_attempt_time /\ elapsed > LockAfterSeconds THEN "time_elapsed"
    ELSE None

\* the row refine_diarized_segments inserts for a selected row and a reply
\* that has a Text line
AttemptRow(row, reply, elapsed) ==
    LET reason == lock_reason_of(row, elapsed)
        should_lock == reason # None
    IN [session |-> row.session,
        speaker |-> row.speaker,
        text |-> "refined_text",
        start |-> row.start,
        end |-> row.end,
        confidence |-> reply.confidence,
        sources |-> row.sources,
        meta |-> TRUE,
        phase |-> 1,
        is_locked |-> should_lock,
        needs_refinement |-> ~should_lock,
        refinement_attempts |-> row.refinement_attempts + 1,
        first_attempt_time |-> TRUE,
        meta_confidence |-> reply.confidence,
        is_complete |-> reply.complete,
        lock_reason |-> reason]

\* ORDER BY start_time
RECURSIVE ByStartFrom(_, _)
ByStartFrom(S, t) ==
    IF t > MaxTime THEN <<>>
    ELSE Ascending({r \in S : refined[r].start = t}) \o ByStartFrom(S, t + 1)

\* the for loop of refine_diarized_segments: a reply without text, or an
\* exception of the call, leaves the row without a new attempt
RECURSIVE refine_loop(_, _, _, _)
refine_loop(rows, ref, replies, elapsed) ==
    IF rows = <<>> THEN ref
    ELSE LET reply == replies[Len(replies) - Len(rows) + 1]
         IN refine_loop(Tail(rows),
                IF reply.served
                THEN insert_refined_segment_main(ref,
                        AttemptRow(refined[Head(rows)], reply, elapsed), FALSE).refined
                ELSE ref,
                replies, elapsed)

\* refine_diarized_segments(session_id): an exception of the selection is
\* caught by the method's outer handler, which logs it and returns
refine_diarized_segments(s, ref, replies, elapsed) ==
    LET selected == select_needs_refinement(s)
    IN IF ~selected.ok THEN ref
       ELSE refine_loop(ByStartFrom(selected.rows, 0), ref, replies, elapsed)

\* get_locked_segments(session_id, limit): SELECT * FROM refined_segments
\* WHERE session_id = ? AND is_locked = 1 ORDER BY start_time DESC LIMIT ?
RECURSIVE LockedFrom(_, _)
LockedFrom(S, t) ==
    IF t < 0 THEN <<>>
    ELSE Ascending({r \in S : refined[r].start = t}) \o LockedFrom(S, t - 1)

get_locked_segments(s, limit) ==
    LET rows == LockedFrom({r \in RefinedIds : /\ refined[r].session = s
                                               /\ refined[r].is_locked_column},
                           MaxTime)
    IN SubSeq(rows, 1, MinOf({limit, Len(rows)}))

\* what call_openai_text leaves the correction pass with: a corrected text,
\* an empty text, or an exception
CorrectionReplies == {"corrected_text", "", "raise"}

\* the phase-2 row phase2_refinement inserts for target_segment
Phase2Row(target, s) ==
    NoAttemptKeys @@
    [session |-> s,
     speaker |-> refined[target].speaker,
     text |-> "corrected_text",
     start |-> refined[target].start,
     end |-> refined[target].end,
     confidence |-> CorrectionConfidence,
     sources |-> <<target>>,
     meta |-> TRUE,
     phase |-> 2,
     is_locked |-> TRUE,
     needs_refinement |-> FALSE]

\* phase2_refinement, "Prepare context from surrounding segments": the rows
\* behind the labels of the prompt, taken from the query result by position
\* (the result is ordered by start_time DESC and used as returned); no
\* context is built before the early return
phase2_context(locked_segments) ==
    IF Len(locked_segments) < 3
    THEN [built |-> FALSE, Previous |-> 0, Current |-> 0, Next |-> 0]
    ELSE [built |-> TRUE,
          Previous |-> locked_segments[1],
          Current |-> locked_segments[2],
          Next |-> locked_segments[3]]

\* phase2_refinement reaches call_openai_text only past the early return
phase2_calls_service(s) == Len(get_locked_segments(s, 3)) >= 3

\* phase2_refinement(session_id): every exception is caught and logged by the
\* method's own handler.  target_segment['speaker_id'] names a key the rows
\* of refined_segments do not have (IndexError).
phase2_unconditional(s, ref, reply) ==
    IF ref = <<>> THEN ref
    ELSE Append(ref, StoredRow(Phase2Row(Len(ref), s)))

\* a pass that corrects the session's oldest refined segment whenever called
phase2_on_oldest(s, ref, reply) ==
    IF \A r \in 1..Len(ref) : ref[r].session # s THEN ref
    ELSE Append(ref, StoredRow(Phase2Row(
                    CHOOSE r \in 1..Len(ref) :
                        /\ ref[r].session = s
                        /\ \A x \in 1..Len(ref) : ref[x].session = s => r <= x, s)))

phase2_refinement(s, ref, reply) ==
    LET locked_segments == get_locked_segments(s, 3)
    IN IF Len(locked_segments) < 3 THEN ref
       ELSE IF reply \in {"", "raise"} THEN ref
       ELSE IF ~({"speaker_id", "speaker_name"} \subseteq RefinedColumns) THEN ref
       ELSE insert_refined_segment_main(ref, Phase2Row(locked_segments[2], s),
                                        FALSE).refined

(***************************************************************************)
(* DatabaseHandler (src/backup/db_handler.py), read as working on the same *)
(* refined_segments rows.                                                  *)
(***************************************************************************)
\* the names the module binds (imports, logger, the class); timedelta and
\* call_openai_text are used by its methods and bound nowhere
DbHandlerNamesAndService ==
    {"Session", "datetime", "json", "List", "Dict", "Any", "DBSession", "Speaker",
     "Segment", "RefinedSegment", "logging", "logger", "DatabaseHandler",
     "call_openai_text"}

DbHandlerNames ==
    {"Session", "datetime", "json", "List", "Dict", "Any", "DBSession", "Speaker",
     "Segment", "RefinedSegment", "logging", "logger", "DatabaseHandler"}

\* refine_locked_segment(segment_id, text, session_id): segment.text =
\* refined_text; a failing call is caught, and the handler then records the
\* error in the row's metadata only
refine_locked_segment(row) ==
    IF "call_openai_text" \in DbHandlerNames
    THEN [row EXCEPT !.text = "refined_text"]
    ELSE row

\* check_and_lock_segments(session_id): the filter is built with timedelta;
\* its NameError is re-raised after the rollback.  (Otherwise: the unlocked
\* rows of the session with confidence >= 0.7 and two or more sources are
\* locked and refined.)
check_and_lock_segments(ref, s) ==
    IF "timedelta" \notin DbHandlerNames THEN ref
    ELSE [r \in DOMAIN ref |->
            IF /\ ref[r].session = s
               /\ ~ref[r].is_locked_column
               /\ ref[r].confidence >= 210
               /\ Len(ref[r].sources) >= 2
            THEN refine_locked_segment([ref[r] EXCEPT !.is_locked_column = TRUE])
            ELSE ref[r]]

(***************************************************************************)
(* Actions.                                                                *)
(***************************************************************************)
\* Session and speaker identifiers are opaque (only compared for equality),
\* so the model names them in order of first appearance: "S2" is the second
\* session to receive a segment, 2 the second speaker to be heard.
InOrderOfAppearance(s, sp) ==
    /\ s = "S2" => \E i \in RawIds : raw[i].session = "S1"
    /\ sp = 2 => \E i \in RawIds : raw[i].speaker = 1

\* the webhook stores one raw segment (insert_segment)
Ingest(s, sp, t0, t1, txt) ==
    /\ Len(raw) < MaxRaw
    /\ InOrderOfAppearance(s, sp)
    /\ raw' = Append(raw, [session |-> s, speaker |-> sp, start |-> t0, end |-> t1,
                           text |-> txt])
    /\ UNCHANGED <<storage, scorer, in_flight, program, refined, usage, session_states, state_order, pc, todo, cur>>

\* run(): sessions = get_active_sessions()
Poll ==
    /\ program = "examples"
    /\ pc = "poll"
    /\ todo' = get_active_sessions
    /\ pc' = IF get_active_sessions = {} THEN "flush" ELSE "process"
    /\ UNCHANGED <<storage, scorer, in_flight, program, raw, refined, usage, session_states, state_order, cur>>

\* run(): self.process_session(session_id) for one session of the sweep
ProcessSession(s, fail) ==
    /\ program = "examples"
    /\ pc = "process"
    /\ s \in todo
    /\ in_flight \in {<<>>, <<s>>}
    /\ process_session(s, fail)
    /\ todo' = todo \ {s}
    /\ pc' = IF todo' = {} THEN "flush" ELSE "process"
    /\ in_flight' = <<>>
    /\ UNCHANGED <<storage, scorer, program, raw, cur>>

\* run(): self.flush_idle_sessions(), then sleep(1); an exception leaves the
\* loop body for the handler, which sleeps 5 s
FlushIdleSessions(fail) ==
    /\ program = "examples"
    /\ pc = "flush"
    /\ LET acc == flush_idle_sessions(fail)
       IN /\ refined' = acc.refined
          /\ usage' = acc.usage
          /\ session_states' = acc.states
          /\ state_order' = acc.order
          /\ pc' = IF acc.ok THEN "sleep" ELSE "backoff"
    /\ UNCHANGED <<storage, scorer, in_flight, program, raw, todo, cur>>

\* run(): time.sleep(1) at the end of the sweep, time.sleep(5) in the handler
\* of the loop, both inside while True
SleepThenExit ==
    /\ pc \in {"sleep", "backoff"}
    /\ session_states' = Aged(session_states,
                              IF pc = "sleep" THEN PollInterval ELSE ErrorBackoff)
    /\ pc' = IF pc = "sleep" THEN "poll" ELSE "exit"
    /\ UNCHANGED <<storage, scorer, in_flight, program, raw, refined, usage, state_order, todo, cur>>

Sleep ==
    /\ pc \in {"sleep", "backoff"}
    /\ session_states' = Aged(session_states,
                              IF pc = "sleep" THEN PollInterval ELSE ErrorBackoff)
    /\ pc' = "poll"
    /\ UNCHANGED <<storage, scorer, in_flight, program, raw, refined, usage, state_order, todo, cur>>

\* a second passes while the loop is between two statements
Tick ==
    /\ Aged(session_states, 1) # session_states
    /\ session_states' = Aged(session_states, 1)
    /\ UNCHANGED <<storage, scorer, in_flight, program, raw, refined, usage, state_order, pc, todo, cur>>

\* run() of the main refiner: pending_sessions = self.get_pending_sessions()
PollMain ==
    /\ program = "main"
    /\ pc = "poll"
    /\ todo' = get_pending_sessions
    /\ pc' = IF get_pending_sessions = {} THEN "sleep" ELSE "process"
    /\ UNCHANGED <<storage, scorer, in_flight, program, raw, refined, usage, session_states, state_order, cur>>

\* run(): self.process_session(session_id); an exception skips the
\* session's refine_diarized_segments
ProcessSessionMain(s, fail) ==
    /\ program = "main"
    /\ pc = "process"
    /\ s \in todo
    /\ in_flight \in {<<>>, <<s>>}
    /\ in_flight' = <<>>
    /\ LET res == process_session_main(s, fail)
       IN /\ Len(res.refined) <= MaxRefined
          /\ refined' = res.refined
          /\ todo' = todo \ {s}
          /\ cur' = IF res.ok THEN [session |-> s, reply |-> None] ELSE NoCall
          /\ pc' = IF res.ok THEN "refine"
                   ELSE IF todo' = {} THEN "sleep" ELSE "process"
    /\ UNCHANGED <<storage, scorer, program, raw, usage, session_states, state_order>>

\* the seconds since first_attempt_time that datetime.now() can show when a
\* lock rule is evaluated
ElapsedSeconds == {LockAfterSeconds, LockAfterSeconds + 1}

\* run(): self.refine_diarized_segments(session_id)
RefineDiarizedSegments ==
    /\ program = "main"
    /\ pc = "refine"
    /\ \E replies \in [1..Cardinality(select_needs_refinement(cur.session).rows)
                         -> ServiceReplies],
          elapsed \in ElapsedSeconds :
            refined' = refine_diarized_segments(cur.session, refined, replies, elapsed)
    /\ cur' = NoCall
    /\ pc' = IF todo = {} THEN "sleep" ELSE "process"
    /\ UNCHANGED <<storage, scorer, in_flight, program, raw, usage, session_states, state_order, todo>>

\* the process is stopped and started again: __init__ builds an empty
\* session_states map, run() starts at the top of its loop, the ledger stays
Restart ==
    /\ <<session_states, state_order, pc, todo, cur>> # << << >>, <<>>, "poll", {}, NoCall>>
    /\ session_states' = << >>
    /\ state_order' = <<>>
    /\ pc' = "poll"
    /\ todo' = {}
    /\ cur' = NoCall
    /\ in_flight' = <<>>
    /\ UNCHANGED <<storage, scorer, program, raw, refined, usage>>

Init ==
    /\ program \in {"examples", "main"}
    /\ raw = <<>>
    /\ refined = <<>>
    /\ usage = <<>>
    /\ session_states = << >>
    /\ state_order = <<>>
    /\ pc = "poll"
    /\ todo = {}
    /\ cur = NoCall
    /\ in_flight = <<>>
    /\ scorer = NoScore
    /\ storage = "failing"

Next ==
    \/ \E s \in Sessions, sp \in Speakers, iv \in Intervals :
          Ingest(s, sp, iv[1], iv[2], Fragment)
    \/ Poll
    \/ \E s \in Sessions, fail \in Failures : ProcessSession(s, fail)
    \/ \E fail \in Failures : FlushIdleSessions(fail)
    \/ PollMain
    \/ \E s \in Sessions, fail \in InsertFailures : ProcessSessionMain(s, fail)
    \/ RefineDiarizedSegments
    \/ Sleep
    \/ Tick

Spec == Init /\ [][Next]_vars

(***************************************************************************)
(* The main refiner's methods called one at a time by a caller other than  *)
(* run(): process_session, and phase1_refinement on the segments that      *)
(* get_unrefined_segments returns (the one query that yields the           *)
(* dictionaries phase1_refinement reads, speaker_name included).  The raw   *)
(* segments carry a fragment or a sentence and arrive in start order.      *)
(***************************************************************************)
InitCaller ==
    /\ program = "main"
    /\ raw = <<>>
    /\ refined = <<>>
    /\ usage = <<>>
    /\ session_states = << >>
    /\ state_order = <<>>
    /\ pc = "caller"
    /\ todo = {}
    /\ cur = NoCall
    /\ in_flight = <<>>
    /\ scorer = NoScore
    /\ storage = "failing"

CallProcessSession(s, fail) ==
    /\ pc = "caller"
    /\ LET res == process_session_main(s, fail)
       IN /\ Len(res.refined) <= MaxCallerRows
          /\ refined' = res.refined
    /\ cur' = NoCall
    /\ UNCHANGED <<storage, scorer, in_flight, program, raw, usage, session_states, state_order, pc, todo>>

CallPhase1Refinement(s) ==
    /\ pc = "caller"
    /\ LET segments == get_unrefined_segments_main(s)
       IN /\ segments # <<>>
          /\ \E replies \in [1..Len(segments) -> ServiceReplies] :
                /\ Len(phase1_refinement(segments, refined, replies)) <= MaxCallerRows
                /\ refined' = phase1_refinement(segments, refined, replies)
    /\ cur' = NoCall
    /\ UNCHANGED <<storage, scorer, in_flight, program, raw, usage, session_states, state_order, pc, todo>>

\* refine_diarized_segments(session_id)
CallRefineDiarizedSegments(s) ==
    /\ pc = "caller"
    /\ \E replies \in [1..Cardinality(select_needs_refinement(s).rows)
                         -> ServiceReplies],
          elapsed \in ElapsedSeconds :
            refined' = refine_diarized_segments(s, refined, replies, elapsed)
    /\ cur' = NoCall
    /\ UNCHANGED <<storage, scorer, in_flight, program, raw, usage, session_states, state_order, pc, todo>>

\* phase2_refinement(session_id)
CallPhase2Refinement(s, reply) ==
    /\ pc = "caller"
    /\ Len(phase2_refinement(s, refined, reply)) <= MaxCallerRows + 1
    /\ refined' = phase2_refinement(s, refined, reply)
    /\ cur' = [session |-> s,
               reply |-> IF phase2_calls_service(s) THEN reply ELSE None]
    /\ UNCHANGED <<storage, scorer, in_flight, program, raw, usage, session_states, state_order, pc, todo>>

CallCheckAndLockSegments(s) ==
    /\ pc = "caller"
    /\ refined' = check_and_lock_segments(refined, s)
    /\ cur' = NoCall
    /\ UNCHANGED <<storage, scorer, in_flight, program, raw, usage, session_states, state_order, pc, todo>>

CallRefineLockedSegment(r) ==
    /\ pc = "caller"
    /\ r \in RefinedIds
    /\ refined' = [refined EXCEPT ![r] = refine_locked_segment(@)]
    /\ cur' = NoCall
    /\ UNCHANGED <<storage, scorer, in_flight, program, raw, usage, session_states, state_order, pc, todo>>

NextCaller ==
    \/ \E s \in Sessions, sp \in Speakers, txt \in Texts :
          Ingest(s, sp, 0, MaxTime, txt)
    \/ \E s \in Sessions, fail \in InsertFailures : CallProcessSession(s, fail)
    \/ \E s \in Sessions : CallPhase1Refinement(s)
    \/ \E s \in Sessions : CallRefineDiarizedSegments(s)

CallerSpec == InitCaller /\ [][NextCaller]_vars

(***************************************************************************)
(* The correction pass: a caller that also invokes phase2_refinement, on   *)
(* sessions whose raw segments are whole sentences, and the two methods of *)
(* DatabaseHandler that write refined segments.                            *)
(***************************************************************************)
NextCorrection ==
    \/ \E s \in Sessions, sp \in Speakers : Ingest(s, sp, 0, MaxTime, Sentence)
    \/ \E s \in Sessions : CallProcessSession(s, NoFail)
    \/ \E s \in Sessions : CallPhase1Refinement(s)
    \/ \E s \in Sessions, reply \in CorrectionReplies : CallPhase2Refinement(s, reply)
    \/ \E s \in Sessions : CallRefineDiarizedSegments(s)
    \/ \E s \in Sessions : CallCheckAndLockSegments(s)
    \/ \E r \in 1..MaxCallerRows : CallRefineLockedSegment(r)

CorrectionSpec == InitCaller /\ [][NextCorrection]_vars

(***************************************************************************)
(* The examples refiner with a working ledger: no storage failure, and the *)
(* while-True loop of run() always takes its next step.                    *)
(***************************************************************************)
InitExamples == Init /\ program = "examples"

RunStep ==
    \/ Poll
    \/ \E s \in Sessions : ProcessSession(s, NoFail)
    \/ FlushIdleSessions(NoFail)
    \/ Sleep

NextLive ==
    \/ \E s \in Sessions, sp \in Speakers, iv \in Intervals :
          Ingest(s, sp, iv[1], iv[2], Fragment)
    \/ RunStep
    \/ Tick

\* The steps of run() are exactly the steps that change the loop's control
\* state, and one of them is possible in every state (checked below as
\* RunStepIsLoopAdvance and LoopNeverStuck).  Weak fairness of the steps
\* that change the control state says that the while-True loop keeps running.
control == <<pc, todo>>

LoopAdvances ==
    /\ pc' \in {"poll", "process", "flush", "sleep", "backoff"}
    /\ todo' \in SUBSET Sessions

LiveSpec == InitExamples /\ [][NextLive]_vars /\ WF_control(LoopAdvances)

RunStepIsLoopAdvance == [][RunStep <=> control' # control]_vars

LoopNeverStuck ==
    program = "examples" =>
        /\ pc \in {"poll", "process", "flush", "sleep", "backoff"}
        /\ pc = "process" => todo # {}

(***************************************************************************)
(* The examples refiner with a process that can be stopped and started     *)
(* again at any point of its loop.                                         *)
(***************************************************************************)
NextRestart ==
    \/ \E s \in Sessions, sp \in Speakers, iv \in Intervals :
          Ingest(s, sp, iv[1], iv[2], Fragment)
    \/ Poll
    \/ \E s \in Sessions, fail \in Failures : ProcessSession(s, fail)
    \/ \E fail \in Failures : FlushIdleSessions(fail)
    \/ Sleep
    \/ Tick
    \/ Restart

RestartSpec == InitExamples /\ [][NextRestart]_vars

(***************************************************************************)
(* The call of process_session in run(), entered and returned in two       *)
(* steps: the for loop of the sweep is at the call until it returns.       *)
(***************************************************************************)
\* run(): self.process_session(session_id) is entered; the statement is a
\* plain call in the one thread of the process
EnterPassDetached(s) ==
    /\ pc = "process"
    /\ s \in todo
    /\ Len(in_flight) < MaxInFlight
    /\ in_flight' = Append(in_flight, s)
    /\ UNCHANGED <<storage, scorer, program, raw, refined, usage, session_states, state_order, pc,
                   todo, cur>>

EnterPass(s) ==
    /\ pc = "process"
    /\ s \in todo
    /\ in_flight = <<>>
    /\ in_flight' = <<s>>
    /\ UNCHANGED <<storage, scorer, program, raw, refined, usage, session_states, state_order, pc,
                   todo, cur>>

\* the call returns
ReturnPass(s, fail) ==
    /\ in_flight # <<>>
    /\ Head(in_flight) = s
    /\ \/ ProcessSession(s, fail)
       \/ ProcessSessionMain(s, fail)

NextSerial ==
    \/ \E s \in Sessions, sp \in Speakers : Ingest(s, sp, 0, MaxTime, Fragment)
    \/ Poll
    \/ PollMain
    \/ \E s \in Sessions : EnterPass(s)
    \/ \E s \in Sessions, fail \in InsertFailures : ReturnPass(s, fail)
    \/ \E fail \in InsertFailures : FlushIdleSessions(fail)
    \/ RefineDiarizedSegments
    \/ Sleep
    \/ Tick

SerialSpec == Init /\ [][NextSerial]_vars

(***************************************************************************)
(* calculate_confidence on its own: any text and any number of segments.   *)
(***************************************************************************)
\* the texts: the empty string, a text of white space only, and texts of one
\* or more words with or without a sentence ending
ScoredTexts ==
    {txt \in [empty : BOOLEAN, words : 0..MaxWords, ends : BOOLEAN] :
        /\ txt.empty => txt.words = 0
        /\ txt.words = 0 => ~txt.ends}

InitScorer == InitCaller

Score(txt, n) ==
    /\ scorer' = [called |-> TRUE, text |-> txt, segments |-> n,
                  confidence |-> calculate_confidence(txt, n)]
    /\ UNCHANGED <<storage, program, raw, refined, usage, session_states, state_order, pc,
                   todo, cur, in_flight>>

NextScorer == \E txt \in ScoredTexts, n \in 0..MaxSources : Score(txt, n)

ScorerSpec == InitScorer /\ [][NextScorer]_vars

(***************************************************************************)
(* Both refiners under a scheduler that keeps running: the statements of   *)
(* run() that are possible are eventually executed.  The calls of          *)
(* process_session and flush_idle_sessions return (HeavyCallReturns: the   *)
(* loop is at such a call and its control state changes); the other        *)
(* statements are fair as actions.                                         *)
(***************************************************************************)
HeavyCallReturns ==
    /\ pc \in {"process", "flush"}
    /\ pc' \in {"poll", "process", "flush", "refine", "sleep", "backoff"}
    /\ todo' \in SUBSET Sessions

LoopSpec ==
    /\ Init
    /\ [][Next]_vars
    /\ WF_vars(Poll)
    /\ WF_vars(PollMain)
    /\ WF_vars(RefineDiarizedSegments)
    /\ WF_vars(Sleep)
    /\ WF_control(HeavyCallReturns)

(***************************************************************************)
(* The scheduler loops with a storage that fails for a while and then      *)
(* works: once it works, no storage call raises any more.                  *)
(***************************************************************************)
\* the failures a storage call can meet in the current state
CanFail(fail) == fail # NoFail => storage = "failing"

StorageRecovers ==
    /\ storage = "failing"
    /\ storage' = "working"
    /\ UNCHANGED <<scorer, in_flight, program, raw, refined, usage, session_states,
                   state_order, pc, todo, cur>>

NextRecovery ==
    \/ \E s \in Sessions, sp \in Speakers, iv \in Intervals :
          Ingest(s, sp, iv[1], iv[2], Fragment)
    \/ Poll
    \/ \E s \in Sessions, fail \in Failures :
          CanFail(fail) /\ ProcessSession(s, fail)
    \/ \E fail \in Failures : CanFail(fail) /\ FlushIdleSessions(fail)
    \/ PollMain
    \/ \E s \in Sessions, fail \in InsertFailures :
          CanFail(fail) /\ ProcessSessionMain(s, fail)
    \/ RefineDiarizedSegments
    \/ Sleep
    \/ Tick
    \/ StorageRecovers

RecoverySpec ==
    /\ Init
    /\ [][NextRecovery]_vars
    /\ WF_vars(Poll)
    /\ WF_vars(PollMain)
    /\ WF_vars(RefineDiarizedSegments)
    /\ WF_vars(Sleep)
    /\ WF_control(HeavyCallReturns)
    /\ WF_vars(StorageRecovers)

(***************************************************************************)
(* Vocabulary of the properties.                                           *)
(***************************************************************************)
SourcesOf(r) == refined[r].sources

\* the speaker a refined row is attributed to, as a raw speaker id
RowSpeaker(row) ==
    IF program = "main" THEN NumericAffinity(row.speaker) ELSE row.speaker

\* the unconsumed-segment query of the running program
Unrefined(s) ==
    IF program = "main" THEN get_unrefined_segments_main(s)
    ELSE get_unrefined_segments(s)

RowsOf(s) == {r \in RefinedIds : refined[r].session = s}

SpeakersOf(s) == {raw[i].speaker : i \in {x \in RawIds : raw[x].session = s}}

NoRepeat(seq) == \A i, j \in 1..Len(seq) : i # j => seq[i] # seq[j]

(***************************************************************************)
(* C1.  Exclusivity: the source raw-segment ids of all refined segments    *)
(* created form a set: no raw id appears twice inside one refined          *)
(* segment's source list, nor in the source lists of two refined segments. *)
(* (Stated as the claim states it; the refiners violate it.)               *)
(***************************************************************************)
C1_Exclusivity ==
    /\ \A r \in RefinedIds : NoRepeat(SourcesOf(r))
    /\ \A r1, r2 \in RefinedIds :
          r1 # r2 => Range(SourcesOf(r1)) \cap Range(SourcesOf(r2)) = {}

(***************************************************************************)
(* C2.  At most one UsageRecord exists per raw segment, and it binds the   *)
(* raw segment to the first refined segment that lists it: closing a later *)
(* group that lists the same raw id creates no second record.              *)
(***************************************************************************)
C2_OneUsageRecordPerRaw ==
    /\ \A u, v \in 1..Len(usage) : u # v => usage[u].raw # usage[v].raw
    /\ \A u \in 1..Len(usage) :
          /\ usage[u].refined \in RefinedIds
          /\ usage[u].raw \in Range(SourcesOf(usage[u].refined))
          /\ \A r \in RefinedIds :
                usage[u].raw \in Range(SourcesOf(r)) => usage[u].refined <= r

\* a raw id listed by two refined segments, with its usage record
C2_LaterGroupSameRaw ==
    \E r1, r2 \in RefinedIds :
        /\ r1 < r2
        /\ \E i \in Range(SourcesOf(r1)) \cap Range(SourcesOf(r2)) :
              \E u \in 1..Len(usage) : usage[u].raw = i

(***************************************************************************)
(* C3.  The unconsumed-segment query never returns a raw segment that is   *)
(* already listed as a source of an existing refined segment.              *)
(* (Stated as the claim states it; the main ledger violates it.)           *)
(***************************************************************************)
C3_NoUsedSegmentReoffered ==
    \A s \in Sessions :
        \A i \in Range(Unrefined(s)) :
            \A r \in RefinedIds : i \notin Range(SourcesOf(r))

(***************************************************************************)
(* C4.  Idle flush is live: once ingestion has stopped, every open group   *)
(* is eventually force-closed, so that every raw segment eventually has a  *)
(* UsageRecord (and keeps it).                                             *)
(* (Stated as the claim states it; the examples refiner violates it.)      *)
(***************************************************************************)
C4_IdleFlushLive == <>[](\A i \in RawIds : i \in UsedIds)

(***************************************************************************)
(* C5.  Group boundary on speaker change: every closed group and every     *)
(* open group holds segments of one single speaker, and the closes of a    *)
(* grouping pass fall exactly on speaker changes: each group closed in the *)
(* pass has another speaker than the group that follows it (the next       *)
(* closed group, or the group left open).                                  *)
(***************************************************************************)
C5_GroupBoundary ==
    [][/\ \A r \in 1..Len(refined') :
            \A k \in 1..Len(refined'[r].sources) :
                raw'[refined'[r].sources[k]].speaker = RowSpeaker(refined'[r])
       /\ \A s \in DOMAIN session_states' :
            \A k \in 1..Len(session_states'[s].group) :
                raw'[session_states'[s].group[k]].speaker
                    = session_states'[s].speaker_id
       /\ pc = "process" =>
            \A r \in (Len(refined) + 1)..Len(refined') :
                IF r < Len(refined')
                THEN RowSpeaker(refined'[r]) # RowSpeaker(refined'[r + 1])
                ELSE program = "examples" =>
                       /\ refined'[r].session \in DOMAIN session_states'
                       /\ session_states'[refined'[r].session].speaker_id
                              # RowSpeaker(refined'[r])
      ]_vars

\* [A(speaker 1), B(speaker 1), C(speaker 2)]: {A,B} is closed, C is open
C5_TwoThenOne ==
    /\ program = "examples"
    /\ Len(raw) = 3
    /\ raw[1].session = raw[2].session /\ raw[2].session = raw[3].session
    /\ raw[1].speaker = raw[2].speaker /\ raw[3].speaker # raw[1].speaker
    /\ Len(refined) = 1
    /\ refined[1].sources = <<1, 2>>
    /\ raw[1].session \in DOMAIN session_states
    /\ session_states[raw[1].session].group = <<3>>

(***************************************************************************)
(* C6.  Only a speaker change or the idle timeout closes a group: a        *)
(* refined segment is created for a session only when its raw segments     *)
(* change speaker or when its open group is flushed after the idle         *)
(* duration; a session that never changes speaker and never goes idle      *)
(* gets no refined segment.                                                *)
(* (Stated as the claim states it; the main refiner violates it.)          *)
(***************************************************************************)
C6_OnlyChangeOrIdleCloses ==
    [][\A s \in Sessions :
          Cardinality(RowsOf(s)') > Cardinality(RowsOf(s)) =>
             \/ Cardinality(SpeakersOf(s)) > 1
             \/ /\ pc = "flush"
                /\ s \in DOMAIN session_states
                /\ session_states[s].idle >= inactivity_seconds
      ]_vars

(***************************************************************************)
(* C7.  One flush cycle closes an idle group: a flush cycle that runs to   *)
(* its end closes every open group that is non-empty and idle for at least *)
(* the inactivity threshold (one refined segment with the group's members, *)
(* the session's in-memory state removed), and no flush cycle touches a    *)
(* group whose idle time is below the threshold.                           *)
(***************************************************************************)
C7_FlushClosesIdleGroups ==
    [][(program = "examples" /\ pc = "flush" /\ pc' # "flush") =>
          \A s \in DOMAIN session_states :
             LET st == session_states[s]
                 due == st.idle >= inactivity_seconds /\ st.group # <<>>
                 new == {r \in (Len(refined) + 1)..Len(refined') :
                           refined'[r].session = s}
             IN /\ ~due => /\ s \in DOMAIN session_states'
                           /\ session_states'[s] = st
                           /\ new = {}
                /\ (due /\ pc' = "sleep") =>
                      /\ s \notin DOMAIN session_states'
                      /\ Cardinality(new) = 1
                      /\ \A r \in new : refined'[r].sources = st.group
      ]_vars

\* after a flush cycle: a session of one speaker has its refined segment
\* and no in-memory state
C7_IdleGroupClosed ==
    /\ program = "examples"
    /\ pc = "sleep"
    /\ \E s \in Sessions :
          /\ s \notin DOMAIN session_states
          /\ Cardinality(SpeakersOf(s)) = 1
          /\ RowsOf(s) # {}

(***************************************************************************)
(* C8.  Closing a group is all-or-nothing, also after a storage failure at *)
(* any statement of the close: every refined segment has the usage writes  *)
(* of all its raw ids committed, and every usage record points to an       *)
(* existing refined segment that lists its raw id.                         *)
(***************************************************************************)
C8_CloseAllOrNothing ==
    program = "examples" =>
        /\ \A r \in RefinedIds : Range(SourcesOf(r)) \subseteq UsedIds
        /\ \A u \in 1..Len(usage) :
              /\ usage[u].refined \in RefinedIds
              /\ usage[u].raw \in Range(SourcesOf(usage[u].refined))

\* a close has just failed in a flush cycle: its idle group is still open,
\* and closes before it have succeeded
C8_AfterFailedClose ==
    /\ program = "examples"
    /\ pc = "backoff"
    /\ \E s \in DOMAIN session_states : IdleDue(session_states[s])
    /\ refined # <<>>

(***************************************************************************)
(* C9.  Temporal ordering within a group: every refined segment's start    *)
(* time is the minimum start time and its end time the maximum end time of *)
(* its constituent raw segments.                                           *)
(* (Stated as the claim states it; the main refiner violates it.)          *)
(***************************************************************************)
C9_GroupTimesAreMinMax ==
    \A r \in RefinedIds :
        /\ refined[r].start = MinOf({raw[i].start : i \in Range(SourcesOf(r))})
        /\ refined[r].end = MaxOf({raw[i].end : i \in Range(SourcesOf(r))})

(***************************************************************************)
(* C10.  Once a locked refined segment exists for a set of source raw ids, *)
(* no later grouping or phase-1 operation creates another phase-0 or       *)
(* phase-1 refined segment that references one of those raw ids.           *)
(***************************************************************************)
Locked(r) == refined[r].meta /\ refined[r].is_locked

C10_LockedCoverageNotDuplicated ==
    \A r1, r2 \in RefinedIds :
        (r1 < r2 /\ Locked(r1) /\ refined[r2].phase \in {0, 1}) =>
            Range(SourcesOf(r1)) \cap Range(SourcesOf(r2)) = {}

\* a locked segment, then two more passes for the same session and speaker:
\* the locked segment is no longer the speaker's latest refined segment
C10_LockedThenLaterPasses ==
    \E r1, r2, r3 \in RefinedIds :
        /\ r1 < r2 /\ r2 < r3
        /\ Locked(r1)
        /\ refined[r2].session = refined[r1].session
        /\ refined[r2].speaker = refined[r1].speaker
        /\ refined[r3].session = refined[r1].session

C12_LockedAtOnceWithReason ==
    \A r \in RefinedIds :
        (/\ refined[r].phase = 1
         /\ refined[r].text = "refined_text"
         /\ refined[r].confidence >= LockThreshold
         /\ refined[r].refinement_attempts <= 1
         /\ Locked(r))
        => refined[r].lock_reason = "high_confidence_complete"

\* the refined segments of session s that carry the lock flag
FlagLocked(s) == {r \in RefinedIds : refined[r].session = s /\ Locked(r)}

\* this step is a correction pass (phase2_refinement) on session s
CorrectionPass(s) ==
    /\ pc = "caller"
    /\ cur' # cur
    /\ cur'.session = s

(***************************************************************************)
(* C16.  With three locked segments for a session and a non-empty service  *)
(* reply, one correction pass emits exactly one new phase-2 segment, whose *)
(* sources are the raw-segment ids of the middle locked segment: the pass  *)
(* asks the service, and with a correction in hand it appends one phase-2  *)
(* row that has the sources of a locked segment of the session.  (Stated   *)
(* as the claim states it; the pass never gets as far as the service.)     *)
(***************************************************************************)
C16_CorrectionEmitsOne ==
    [][\A s \in Sessions :
          (CorrectionPass(s) /\ Cardinality(FlagLocked(s)) >= 3) =>
             /\ cur'.reply # None
             /\ cur'.reply = "corrected_text" =>
                   /\ Len(refined') = Len(refined) + 1
                   /\ refined'[Len(refined')].phase = 2
                   /\ \E m \in FlagLocked(s) :
                         refined'[Len(refined')].sources = refined[m].sources
      ]_vars

(***************************************************************************)
(* C17.  With fewer than three locked segments for a session, the          *)
(* correction pass is a no-op: no refined segment is emitted, the service  *)
(* is not called, and the ledger is left unchanged.                        *)
(***************************************************************************)
C17_TooFewLockedIsNoOp ==
    [][\A s \in Sessions :
          (CorrectionPass(s) /\ Cardinality(FlagLocked(s)) < 3) =>
             /\ refined' = refined
             /\ cur'.reply = None
             /\ raw' = raw
             /\ usage' = usage
      ]_vars

\* a correction pass has just returned for a session with exactly two
\* locked segments
C17_AfterPassWithTwoLocked ==
    /\ pc = "caller"
    /\ cur.session \in Sessions
    /\ Cardinality(FlagLocked(cur.session)) = 2

Awaiting(r) ==
    /\ program = "main"
    /\ r \in RefinedIds
    /\ refined[r].phase = 0
    /\ refined[r].needs_refinement

\* the refined segments emitted by phase-1 attempts on the group of row r
AttemptsOn(r) ==
    IF program # "main" \/ r \notin RefinedIds THEN {}
    ELSE {q \in RefinedIds : /\ refined[q].session = refined[r].session
                             /\ refined[q].sources = refined[r].sources
                             /\ refined[q].refinement_attempts >= 1}

(***************************************************************************)
(* C13.  Lock rule 2: the attempt count of a group grows by one with every *)
(* completed attempt across scheduler ticks, and the group is locked with  *)
(* reason max_attempts as soon as the count reaches 3.  Hence a group that *)
(* waits for refinement is eventually locked, by its third attempt at the  *)
(* latest, with a reason recorded.  (Stated as the claim states it; under  *)
(* the running scheduler no attempt ever completes.)                       *)
(***************************************************************************)
C13_LockedByThirdAttempt ==
    \A r \in 1..MaxRefined :
        Awaiting(r) ~> (\E q \in AttemptsOn(r) :
                           /\ Locked(q)
                           /\ refined[q].refinement_attempts <= MaxAttempts
                           /\ refined[q].lock_reason # None)

(***************************************************************************)
(* C14.  Lock rule 3: the time of a group's first attempt is recorded at   *)
(* that attempt and is available to the later ones, which lock the segment *)
(* with reason time_elapsed once 300 s have passed.  Hence a group that    *)
(* waits for refinement eventually has a first-attempt time.  (Stated as   *)
(* the claim states it; under the running scheduler none is ever           *)
(* recorded.)                                                              *)
(***************************************************************************)
C14_FirstAttemptRecorded ==
    \A r \in 1..MaxRefined :
        Awaiting(r) ~> (\E q \in AttemptsOn(r) : refined[q].first_attempt_time)

(***************************************************************************)
(* C19.  Per-session error isolation: an error raised while working on one *)
(* session in a sweep is caught for that session, and every other session  *)
(* with an idle group is still processed in the same sweep.  One storage   *)
(* error in the idle flush of a sweep therefore leaves at most one of the  *)
(* groups that were due open.  (Stated as the claim states it; the         *)
(* examples refiner aborts the flush at the first error.)                  *)
(***************************************************************************)
C19_OtherSessionsStillFlushed ==
    [][(program = "examples" /\ pc = "flush" /\ pc' # "flush") =>
          Cardinality({s \in DOMAIN session_states :
                          /\ IdleDue(session_states[s])
                          /\ s \in DOMAIN session_states'}) <= 1
      ]_vars

(***************************************************************************)
(* C20.  The scheduler loop never exits: after an exception it backs off   *)
(* (5 s instead of 1 s) and then starts another sweep, and a new sweep     *)
(* always eventually starts.                                               *)
(***************************************************************************)
C20_LoopNeverExits ==
    /\ []<>(pc = "poll")
    /\ (pc = "backoff") ~> (pc = "poll")

\* the loop is in its exception handler after a sweep that closed a group
C20_BackingOff ==
    /\ pc = "backoff"
    /\ refined # <<>>

(***************************************************************************)
(* C21.  Restart safety: in every reachable state each raw segment held in *)
(* a session's in-memory open group has no UsageRecord, so the members of  *)
(* an open group that a restart discards are still returned as unconsumed. *)
(* (Stated as the claim states it; the examples refiner can hold a         *)
(* consumed segment in an open group.)                                     *)
(***************************************************************************)
C21_OpenGroupUnconsumed ==
    \A s \in DOMAIN session_states :
        \A k \in 1..Len(session_states[s].group) :
            session_states[s].group[k] \notin UsedIds

C23_ConfidenceInUnitInterval ==
    /\ scorer.confidence >= 0
    /\ scorer.confidence <= 300

\* scored: a sentence of more than ten words from more than three sources
C23_ScoredAboveTheCaps ==
    /\ scorer.called
    /\ scorer.text.ends
    /\ scorer.text.words > 10
    /\ scorer.segments > 3

(***************************************************************************)
(* C24.  For every word count and number of sources, a text that ends in a *)
(* sentence terminator scores at least as much as the text with the same   *)
(* word count and sources that does not.                                   *)
(***************************************************************************)
C24_TerminatedScoresAtLeast ==
    (scorer.called /\ scorer.text.ends) =>
        scorer.confidence >=
            calculate_confidence([scorer.text EXCEPT !.ends = FALSE], scorer.segments)

\* scored: a one-word sentence from a single source
C24_ScoredShortSentence ==
    /\ scorer.called
    /\ scorer.text.ends
    /\ scorer.text.words = 1
    /\ scorer.segments = 1

\* the reference formula of the claim, in units of 1/300
ReferenceConfidence(text, n) ==
    MinOf({300,
           (IF text.ends THEN 210 ELSE 90)
           + MinOf({20 * n, 60}) + MinOf({3 * text.words, 30})})

(***************************************************************************)
(* C25.  calculate_confidence returns min(base + segmentFactor*0.2 +       *)
(* lengthFactor*0.1, 1.0) with base 0.7 or 0.3, segmentFactor =            *)
(* min(sourceCount/3, 1), lengthFactor = min(wordCount/10, 1), on all      *)
(* inputs, the empty text and the empty source list included.  (Stated as  *)
(* the claim states it; the empty text is scored 0.)                       *)
(***************************************************************************)
C25_AgreesWithReferenceEverywhere ==
    scorer.called =>
        scorer.confidence = ReferenceConfidence(scorer.text, scorer.segments)

(***************************************************************************)
(* C25, amended.  For every text but the empty string, and every source    *)
(* list, calculate_confidence returns the reference formula; for the empty *)
(* string it returns 0.                                                    *)
(***************************************************************************)
C25_AgreesWithReferenceUnlessEmpty ==
    scorer.called =>
        scorer.confidence = IF scorer.text.empty THEN 0
                            ELSE ReferenceConfidence(scorer.text, scorer.segments)

\* scored: the empty string with two sources
C25_ScoredEmptyText ==
    /\ scorer.called
    /\ scorer.text.empty
    /\ scorer.segments = 2

\* the raw segments some refined row already lists as a source
Grouped == UNION {Range(SourcesOf(r)) : r \in RefinedIds}

(***************************************************************************)
(* C26.  Quiescence: if no new raw segments arrive, the scheduler loop of  *)
(* the main refiner reaches a fixed point after finitely many sweeps; from *)
(* then on no further refined rows are created, so the rows of a session   *)
(* stay bounded.  Stated through the variant that bounds the sweeps: a     *)
(* grouping pass that adds rows groups at least one raw segment that no    *)
(* earlier row lists, so the never-grouped segments shrink with every      *)
(* productive pass.  (Stated as the claim states it; the selection of      *)
(* get_unrefined_segments offers grouped segments again, sweep after       *)
(* sweep.)                                                                 *)
(***************************************************************************)
C26_EveryPassGroupsNewSegments ==
    [][(program = "main" /\ pc = "process" /\ Len(refined') > Len(refined))
         => \E r \in (Len(refined) + 1)..Len(refined') :
               Range(refined'[r].sources) \ Grouped # {}]_vars

\* the start times along a list of raw ids never decrease
StartsAscend(ids) ==
    \A i, j \in 1..Len(ids) : i < j => raw[ids[i]].start <= raw[ids[j]].start

\* the source lists of the rows from..Len(ref) of a ledger, joined in row order
RECURSIVE SourcesFrom(_, _)
SourcesFrom(ref, from) ==
    IF from > Len(ref) THEN <<>>
    ELSE ref[from].sources \o SourcesFrom(ref, from + 1)

\* the open group a session's state holds (none in the main refiner)
OpenGroup(states, s) ==
    IF s \in DOMAIN states THEN states[s].group ELSE <<>>

(***************************************************************************)
(* C27, as the claim states it.  Ordering guarantee over the whole life of *)
(* a session, late arrivals included: the start times along each closed    *)
(* group's source list never decrease, and neither do they from one closed *)
(* group of a session to the next.  (A raw segment that arrives late with  *)
(* an earlier start time is grouped by a later pass, after segments that   *)
(* start later.)                                                           *)
(***************************************************************************)
C27_StartsNeverDecreaseAcrossPasses ==
    /\ \A r \in RefinedIds : StartsAscend(SourcesOf(r))
    /\ \A r1, r2 \in RefinedIds :
          (r1 < r2 /\ refined[r1].session = refined[r2].session)
          => StartsAscend(<<SourcesOf(r1)[Len(SourcesOf(r1))], SourcesOf(r2)[1]>>)

(***************************************************************************)
(* C27, amended.  Within each polling pass of a session the raw segments   *)
(* are added to groups in non-decreasing start-time order: the start times *)
(* of the segments the pass adds, along the groups it closes and the group *)
(* it leaves open, never decrease.  The segments the open group held       *)
(* before the pass come first and are not counted; a close that raises     *)
(* after its row was written leaves the same group open, counted once.     *)
(***************************************************************************)
C27_EachPassAddsInStartOrder ==
    [][(pc = "process" /\ todo' # todo /\ pc' # "poll")
         => LET s == CHOOSE x \in todo \ todo' : TRUE
                before == OpenGroup(session_states, s)
                after == OpenGroup(session_states', s)
                closed == SourcesFrom(refined', Len(refined) + 1)
                rewritten == /\ Len(refined') > Len(refined)
                             /\ refined'[Len(refined')].sources = after
                all == IF rewritten THEN closed ELSE closed \o after
            IN StartsAscend(SubSeq(all, Len(before) + 1, Len(all)))]_vars

\* a closed group lists a segment that arrived late after one that starts
\* later: an earlier pass added the first, a later pass the second
C27_LateSegmentGrouped ==
    \E r \in RefinedIds : \E i, j \in 1..Len(SourcesOf(r)) :
        /\ i < j
        /\ SourcesOf(r)[i] < SourcesOf(r)[j]
        /\ raw[SourcesOf(r)[i]].start > raw[SourcesOf(r)[j]].start

\* the raw segments of a session
SegmentsOf(s) == {i \in RawIds : raw[i].session = s}

(***************************************************************************)
(* C28.  A session that holds exactly one raw segment: the refined segment *)
(* the idle flush of the examples refiner creates for it is a              *)
(* single-member group, its source list is that raw id once, however many  *)
(* polling sweeps ran between the segment's arrival and the flush.         *)
(* (Stated as the claim states it; every sweep before the flush appends    *)
(* the segment to the open group again.)                                   *)
(***************************************************************************)
C28_SingleSegmentSingleMember ==
    program = "examples" =>
        \A s \in Sessions :
            Cardinality(SegmentsOf(s)) = 1 =>
                \A r \in RowsOf(s) :
                    SourcesOf(r) = <<CHOOSE i \in SegmentsOf(s) : TRUE>>

(***************************************************************************)
(* C29.  The lock and phase information the main pipeline writes is the    *)
(* information it reads back: every refined segment created as locked (a   *)
(* locked phase-1 segment or a phase-2 correction) is among the locked     *)
(* segments get_locked_segments finds for its session, and every phase-0   *)
(* segment created with needs_refinement is selected by                    *)
(* refine_diarized_segments.  (Stated as the claim states it; the flags    *)
(* are written to the metadata JSON and read from table columns.)          *)
(***************************************************************************)
C29_WrittenFlagsAreReadBack ==
    program = "main" =>
        \A r \in RefinedIds :
            /\ refined[r].is_locked
                 => r \in Range(get_locked_segments(refined[r].session, Len(refined)))
            /\ (refined[r].phase = 0 /\ refined[r].needs_refinement)
                 => /\ select_needs_refinement(refined[r].session).ok
                    /\ r \in select_needs_refinement(refined[r].session).rows

(***************************************************************************)
(* C30.  The correction pass builds its context in chronological order: of *)
(* the three most recently locked segments of the session, the text        *)
(* labelled Previous belongs to the one with the earliest start time, the  *)
(* text labelled Next to the one with the latest, and the corrected target *)
(* is the one between them.  (Stated as the claim states it; the pass      *)
(* finds no locked segment and builds no context, and the labels follow    *)
(* the descending order of the query.)                                     *)
(***************************************************************************)
C30_ContextIsChronological ==
    [][\A s \in Sessions :
          (CorrectionPass(s) /\ Cardinality(FlagLocked(s)) >= 3) =>
             LET ctx == phase2_context(get_locked_segments(s, 3))
             IN /\ ctx.built
                /\ {ctx.Previous, ctx.Current, ctx.Next} \subseteq FlagLocked(s)
                /\ refined[ctx.Previous].start <= refined[ctx.Current].start
                /\ refined[ctx.Current].start <= refined[ctx.Next].start
                /\ \A r \in FlagLocked(s) \ {ctx.Previous, ctx.Current, ctx.Next} :
                      refined[r].start <= refined[ctx.Previous].start
      ]_vars

C32_UnlockedGroupAttemptedAgain ==
    \A r \in 1..MaxRefined :
        Awaiting(r) ~> (\E q \in AttemptsOn(r) :
                           \/ Locked(q)
                           \/ /\ refined[q].refinement_attempts >= 2
                              /\ refined[q].needs_refinement
                              /\ refined[q].lock_reason = None)

(***************************************************************************)
(* C33.  Tolerant parsing: if the service reply to a phase-1 attempt       *)
(* contains the refined text but its confidence field is missing or not a  *)
(* number, the attempt does not fail, a phase-1 segment is emitted, and    *)
(* its confidence is the heuristic confidence of the group's combined      *)
(* text.  Hence the confidence of every phase-1 segment that carries a     *)
(* refined text is one the service stated or the heuristic one of its      *)
(* group.  (Stated as the claim states it; the parser leaves 0.0.)         *)
(***************************************************************************)
C33_UnparsedConfidenceIsHeuristic ==
    program = "main" =>
        \A r \in RefinedIds :
            (refined[r].phase = 1 /\ refined[r].text = "refined_text") =>
                \/ refined[r].confidence \in StatedConfidences
                \/ refined[r].confidence =
                      calculate_confidence(combine_segments(SourcesOf(r)).text,
                                           Len(SourcesOf(r)))

\* this step is the return of a grouping pass that raised nothing to run()
GrouperReturned ==
    /\ pc = "process"
    /\ todo' # todo
    /\ program = "main" => cur'.session \in Sessions

(***************************************************************************)
(* C34.  In every sweep, for each session with pending work the scheduler  *)
(* invokes the Grouper, then the Refinement Engine over the newly closed   *)
(* groups, then the Correction Pass, in that order, before the sweep moves *)
(* on: the Grouper's return is followed by the Refinement Engine, whose    *)
(* return is followed by the Correction Pass.  (Stated as the claim states *)
(* it; neither run() calls a correction pass, and the examples run() calls *)
(* the Grouper only.)                                                      *)
(***************************************************************************)
C34_GrouperRefinementCorrection ==
    [][/\ GrouperReturned => pc' = "refine"
       /\ (pc = "refine" /\ pc' # "refine") => pc' = "correct"
      ]_vars

\* the raw segments held in open groups of the examples refiner
InOpenGroups ==
    UNION {Range(session_states[s].group) : s \in DOMAIN session_states}

(***************************************************************************)
(* C35.  A storage error during a session's pass aborts that session's     *)
(* pass for the current sweep only; the pass is retried on the next tick,  *)
(* and once storage works again every pending raw segment of that session  *)
(* is eventually grouped (it is a member of an open group or a source of a *)
(* refined segment).                                                       *)
(***************************************************************************)
C35_PendingEventuallyGrouped ==
    \A i \in 1..MaxRaw :
        (i \in RawIds) ~> (i \in Grouped \cup InOpenGroups)

\* the main refiner asleep after a sweep whose pass was aborted half way: a
\* later segment of a session is grouped, one that arrived before it is not
C35_AfterAbortedPass ==
    /\ program = "main"
    /\ pc = "sleep"
    /\ \E i, j \in RawIds :
          /\ j < i
          /\ raw[i].session = raw[j].session
          /\ i \in Grouped
          /\ j \notin Grouped

(***************************************************************************)
(* C36.  In every reachable state a session's in-memory open group of the  *)
(* examples refiner contains each raw segment at most once, after any      *)
(* number of polling passes over the same session.  (Stated as the claim   *)
(* states it; every pass appends the group's own members again.)           *)
(***************************************************************************)
C36_OpenGroupHasNoRepeat ==
    program = "examples" =>
        \A s \in DOMAIN session_states : NoRepeat(session_states[s].group)

(***************************************************************************)
(* C37.  The usage index and the refined segments of the examples ledger   *)
(* agree in every reachable state: a UsageRecord binding raw segment i to  *)
(* refined segment r exists if and only if i is in r's source list.        *)
(* (Stated as the claim states it; a raw segment listed by a second        *)
(* refined segment keeps its first binding only.)                          *)
(***************************************************************************)
C37_UsageAgreesWithSources ==
    program = "examples" =>
        \A i \in RawIds, r \in RefinedIds :
            (\E k \in 1..Len(usage) : usage[k].raw = i /\ usage[k].refined = r)
            <=> i \in Range(SourcesOf(r))

\* the phase-2 segments that correct refined segment r
CorrectionsOf(r) ==
    {q \in RefinedIds : refined[q].phase = 2 /\ refined[q].sources = <<r>>}

C39_Phase1SpeakerPure ==
    program = "main" =>
        \A r \in RefinedIds :
            refined[r].phase = 1 =>
                \A i \in Range(SourcesOf(r)) : raw[i].speaker = RowSpeaker(refined[r])

(***************************************************************************)
(* C40.  On the heuristic fallback path of phase-1 refinement a segment is *)
(* locked only if its combined text ends in a sentence terminator: for     *)
(* text without a terminator the heuristic confidence is at most 0.6       *)
(* (180/300), below the 0.8 lock threshold, for every source count and     *)
(* word count.                                                             *)
(***************************************************************************)
C40_UnterminatedStaysBelowLock ==
    scorer.called =>
        /\ ~scorer.text.ends => scorer.confidence <= 180
        /\ scorer.confidence >= LockThreshold => scorer.text.ends

\* the largest unterminated text scored: more than ten words, more than
\* three sources
C40_ScoredLongFragment ==
    /\ scorer.called
    /\ ~scorer.text.ends
    /\ scorer.text.words > 10
    /\ scorer.segments > 3
    /\ scorer.confidence = 180

====
